---- MODULE Spec2Model ----
(***************************************************************************)
(* The model-invocation layer of the Socratic learning assistant:          *)
(* GeminiAPI._enqueue (the paced promise chain), _isRateLimitError,        *)
(* _parseJSON and the two fallback clients, _callAPI (retry the same model *)
(* with exponential backoff, then the next model) and _callGemini (skip to *)
(* the next model at once); and the session page that folds the model's    *)
(* answers into the stored session: handleStartSession, loadSession,       *)
(* handleResponse, handleEndSession and Storage.updateSession.             *)
(*                                                                         *)
(* Strings the code inspects are sequences of characters; strings it only  *)
(* passes on are sequences of longer tokens.  Times are milliseconds.      *)
(***************************************************************************)
EXTENDS Integers, Sequences, FiniteSets, TLC

VARIABLES
    policy,          \* the client build: "retry" (_callAPI) or "skip" (_callGemini)
    apiKey,          \* localStorage socratic_api_key ("" when not configured)
    preferred,       \* localStorage socratic_model (skip client)
    working,         \* localStorage socratic_working_models (skip client)
    now,             \* Date.now()
    lastRequestTime, \* GeminiAPI._lastRequestTime
    chain,           \* GeminiAPI._requestQueue: ids of the chained tasks, oldest first
    calls,           \* one record per submitted task or invocation, in submission order
    lastEvent,       \* detail of the last 'gemini-rate-limit' event dispatched
    lastStart,       \* history: when the most recently started queue task started (-1: none)
    lastFetchAt,     \* history: when _rawFetch was last called (-1: never)
    sessions,        \* localStorage socratic_sessions, newest first
    stats,           \* localStorage socratic_stats
    page,            \* the page the browser shows: "index", "session" or "review"
    SESSION_ID,      \* the id parameter of the session page (0 on the other pages)
    exchangeCount,   \* the session page's exchangeCount
    pending,         \* the session page's handlers suspended at their model call
    submitted,       \* how many student responses have been submitted so far
    allCorrectInsights, \* the session page's allCorrectInsights
    allMisconceptions,  \* the session page's allMisconceptions
    allGaps,            \* the session page's allGaps
    lastCall         \* history: the function last called on its own, its arguments and result

apiVars == <<policy, apiKey, preferred, working, now, lastRequestTime, chain, calls,
             lastEvent, lastStart, lastFetchAt>>

uiVars == <<allCorrectInsights, allMisconceptions, allGaps>>

sessVars == <<sessions, stats, page, SESSION_ID, exchangeCount, pending, submitted,
              allCorrectInsights, allMisconceptions, allGaps, lastCall>>

vars == <<policy, apiKey, preferred, working, now, lastRequestTime, chain, calls,
          lastEvent, lastStart, lastFetchAt,
          sessions, stats, page, SESSION_ID, exchangeCount, pending, submitted,
          allCorrectInsights, allMisconceptions, allGaps, lastCall>>

-----------------------------------------------------------------------------
(* Bounds of the model: invocations, plain tasks, candidate models of each   *)
(* client, clock steps each client is watched for, and the clock step in ms  *)

MaxCalls == 2
MaxTasks == 3
NumModelsRetry == 2
NumModelsSkip == 3
MaxTicksRetry == 6
MaxTicksSkip == 3
TickMs == 2000

(* Program constants *)

MinRequestGapRetry == 1000
MinRequestGapSkip == 4000
MaxRetries == 3
BaseBackoff == 2000

(* Bounds of the session model: sessions started, student responses         *)
(* submitted, and handlers suspended at a model call at the same time        *)

MaxSessions == 1
MaxTurns == 3
MaxPending == 2
MaxEnds == 2

(* Bound of the insight panel: answers handed to updateUI during one load    *)
(* of the session page                                                       *)

MaxFolds == 3

(* Bounds of the store on its own: sessions created, and calls of            *)
(* createSession and updateSession                                           *)

MaxStored == 3
MaxStoreCalls == 4

(* Bound of the parser on its own: texts parsed one after another *)

MaxParses == 2

(* _maxHistory: only the last N conversation turns are sent *)
MaxHistory == 10

(* ALL_MODELS of the client in use; a model is named by its place in the list *)
NumModels == IF policy = "retry" THEN NumModelsRetry ELSE NumModelsSkip

ALL_MODELS == [k \in 1..NumModels |-> k]

MinRequestGap == IF policy = "retry" THEN MinRequestGapRetry ELSE MinRequestGapSkip

(* Date.now() when the page is loaded: far more than any gap after the       *)
(* initial _lastRequestTime of 0, so the first task never waits              *)
Epoch == 4 * TickMs

MaxTicks == IF policy = "retry" THEN MaxTicksRetry ELSE MaxTicksSkip

Horizon == Epoch + MaxTicks * TickMs

-----------------------------------------------------------------------------
(* Strings *)

RECURSIVE Pow2(_)
Pow2(n) == IF n = 0 THEN 1 ELSE 2 * Pow2(n - 1)

LowerOf == [c \in {"G", "Q", "R", "A", "P", "I"} |->
              CASE c = "G" -> "g" [] c = "Q" -> "q" [] c = "R" -> "r"
                [] c = "A" -> "a" [] c = "P" -> "p" [] c = "I" -> "i"]

ToLowerCase(s) == [k \in 1..Len(s) |-> IF s[k] \in DOMAIN LowerOf THEN LowerOf[s[k]] ELSE s[k]]

Includes(s, sub) ==
    \E k \in 0..(Len(s) - Len(sub)) : \A j \in 1..Len(sub) : s[k + j] = sub[j]

DigitChars == <<"0", "1", "2", "3", "4", "5", "6", "7", "8", "9">>

RECURSIVE Digits(_)
Digits(n) == IF n < 10 THEN <<DigitChars[n + 1]>>
             ELSE Digits(n \div 10) \o <<DigitChars[(n % 10) + 1]>>

WordQuota == <<"q", "u", "o", "t", "a">>
WordRate == <<"r", "a", "t", "e">>
WordExhausted == <<"r", "e", "s", "o", "u", "r", "c", "e", "_",
                   "e", "x", "h", "a", "u", "s", "t", "e", "d">>

-----------------------------------------------------------------------------
(* GeminiAPI._isRateLimitError(status, msg); msg is always a string here *)

IsRateLimitError(status, msg) ==
    IF status = 429 THEN TRUE
    ELSE LET l == ToLowerCase(msg)
         IN  Includes(l, WordQuota) \/ Includes(l, WordRate) \/ Includes(l, WordExhausted)

(* the server's message with no fallback text *)
ErrMsgNoFallback(status, msg) == msg

(* errData?.error?.message || 'API error (<status>)' *)
ApiErrorPrefix == <<"A", "P", "I", " ", "e", "r", "r", "o", "r", " ", "(">>

ErrMsg(status, msg) ==
    IF msg # <<>> THEN msg ELSE ApiErrorPrefix \o Digits(status) \o <<")">>

-----------------------------------------------------------------------------
(* GeminiAPI._parseJSON(text) *)

Whitespace == {" ", "\n"}

RECURSIVE TrimStart(_)
TrimStart(s) == IF s # <<>> /\ Head(s) \in Whitespace THEN TrimStart(Tail(s)) ELSE s

RECURSIVE TrimEnd(_)
TrimEnd(s) == IF s # <<>> /\ s[Len(s)] \in Whitespace
              THEN TrimEnd(SubSeq(s, 1, Len(s) - 1)) ELSE s

Trim(s) == TrimEnd(TrimStart(s))

\* One grave accent, U+0060 (the character has no string literal here)
Backtick == "U+0060"

Fence == <<Backtick, Backtick, Backtick>>

StartsWith(s, p) == Len(s) >= Len(p) /\ SubSeq(s, 1, Len(p)) = p

EndsWith(s, p) == Len(s) >= Len(p) /\ SubSeq(s, Len(s) - Len(p) + 1, Len(s)) = p

(* String.prototype.indexOf, 0-based, -1 when absent *)
IndexOf(s, ch) ==
    IF \E k \in 1..Len(s) : s[k] = ch
    THEN (CHOOSE k \in 1..Len(s) : s[k] = ch /\ \A j \in 1..(k - 1) : s[j] # ch) - 1
    ELSE -1

(* String.prototype.substring(from), 0-based *)
Substring(s, from) == SubSeq(s, from + 1, Len(s))

JsonObject == <<"{", "}">>
JsonNull == <<"n", "u", "l", "l">>
JsonNumber == <<"1">>

(* JSON.parse on the JSON texts of the model: [ok |-> FALSE] is a SyntaxError *)
JSONParse(c) ==
    LET t == Trim(c)
    IN  CASE t = JsonObject -> [ok |-> TRUE, value |-> "object"]
          [] t = JsonNull   -> [ok |-> TRUE, value |-> "null"]
          [] t = JsonNumber -> [ok |-> TRUE, value |-> "number"]
          [] OTHER          -> [ok |-> FALSE, value |-> "SyntaxError"]

(* _parseJSON without the trim of the text it is given *)
ParseJSONUntrimmed(text) ==
    LET c1 == text
        c2 == IF StartsWith(c1, Fence) THEN Substring(c1, IndexOf(c1, "\n") + 1) ELSE c1
        c3 == IF EndsWith(c2, Fence) THEN Trim(SubSeq(c2, 1, Len(c2) - 3)) ELSE c2
    IN  JSONParse(c3)

ParseJSON(text) ==
    LET c1 == Trim(text)
        c2 == IF StartsWith(c1, Fence) THEN Substring(c1, IndexOf(c1, "\n") + 1) ELSE c1
        c3 == IF EndsWith(c2, Fence) THEN Trim(SubSeq(c2, 1, Len(c2) - 3)) ELSE c2
    IN  JSONParse(c3)

-----------------------------------------------------------------------------
(* What the HTTP collaborator can answer *)

MsgDenied == <<"d", "e", "n", "i", "e", "d">>
MsgGenerate == <<"G", "e", "n", "e", "r", "a", "t", "e">>

(* status and error.message of the non-2xx answers: a throttle without and   *)
(* with a message, a rejected credential whose message has no throttle word  *)
(* and one whose message has ("Generate" holds "rate"), a server error       *)
ErrorAnswers == {<<429, <<>>>>, <<429, MsgDenied>>, <<401, MsgDenied>>,
                 <<401, MsgGenerate>>, <<500, <<>>>>}

TextObject == JsonObject
TextNull == JsonNull
TextFenced == Fence \o <<"\n">> \o JsonObject \o <<"\n">> \o Fence
TextGarbage == <<"n", "o">>

OkTexts == {TextObject, TextNull, TextGarbage}

FetchFailed == <<"Failed to fetch">>

HttpOk(text) == [net |-> FALSE, status |-> 200, msg |-> <<>>, text |-> text]
HttpError(status, msg) == [net |-> FALSE, status |-> status, msg |-> msg, text |-> <<>>]
NetworkFailure(emsg) == [net |-> TRUE, status |-> 0, msg |-> emsg, text |-> <<>>]

Responses ==
    {HttpOk(t) : t \in OkTexts}
    \cup {HttpError(e[1], e[2]) : e \in ErrorAnswers}
    \cup {NetworkFailure(e) : e \in {<<>>, FetchFailed}}

ResOk(r) == ~r.net /\ r.status \in 200..299

-----------------------------------------------------------------------------
(* Results and per-invocation state *)

NoData == [value |-> "none", usedModel |-> 0]
NoResult == [success |-> FALSE, data |-> NoData, error |-> <<>>]
NoResponse == [net |-> FALSE, status |-> 0, msg |-> <<>>, text |-> <<>>]
NoEvent == [waitSeconds |-> -1, model |-> 0, attempt |-> 0]

Success(data) == [success |-> TRUE, data |-> data, error |-> <<>>]
Failure(error) == [success |-> FALSE, data |-> NoData, error |-> error]

KeyNotConfigured == <<"API key not configured.">>
NetworkError == <<"Network error.">>
SyntaxErrorMsg == <<"SyntaxError: Unexpected token">>
TypeErrorMsg == <<"TypeError: Cannot set properties of null">>

AdviceRetry == <<"All models are rate-limited or unavailable.",
                 "Fix options: 1. Wait a minute and try again 2. Check your credits at openrouter.ai 3. Try a different API key",
                 "Last error: ">>
AdviceSkip == <<"All models are rate-limited. This usually means your daily free-tier quota is used up.",
                "Fix options: 1. Wait until your quota resets 2. Create a new API key 3. Enable billing",
                "Last error: ">>

Advice == IF policy = "retry" THEN AdviceRetry ELSE AdviceSkip

AllModelsFailed(lastError) == Failure(Advice \o lastError)

(* pc: "returned"  the invocation returned before _enqueue (no credential)   *)
(*     "queued"    the _enqueue callback waits for the promise before it     *)
(*     "pacing"    the callback awaits setTimeout(wait)                      *)
(*     "running"   a plain task function runs                                *)
(*     "http"      the invocation awaits _rawFetch                           *)
(*     "backoff"   the invocation awaits its backoff setTimeout              *)
(*     "fulfilled" / "rejected"  the task's promise is settled               *)
(* tries, fetchedAt, lastResp and allThrottled are history: the number of    *)
(* _rawFetch calls made per candidate model, when the pending _rawFetch was  *)
(* called, the last answer received, whether every answer was a throttle.    *)
NewTask(kind, models) ==
    [kind |-> kind, pc |-> "queued", models |-> models, mi |-> 0, attempt |-> 0,
     lastError |-> <<>>, result |-> NoResult, wakeAt |-> 0,
     tries |-> [k \in 1..Len(models) |-> 0], fetchedAt |-> 0,
     lastResp |-> NoResponse, allThrottled |-> TRUE]

RECURSIVE SumSeq(_)
SumSeq(q) == IF q = <<>> THEN 0 ELSE Head(q) + SumSeq(Tail(q))

NHttp(c) == SumSeq(c.tries)

(* [preferred, ...working.filter(m => m !== preferred)], or [...ALL_MODELS] *)
ModelsToTry ==
    IF policy = "retry" THEN ALL_MODELS
    ELSE <<preferred>> \o SelectSeq(working, LAMBDA m : m # preferred)

(* await this._rawFetch(model, ...) *)
Fetch(c, m, a) ==
    [c EXCEPT !.pc = "http", !.mi = m, !.attempt = a, !.wakeAt = 0,
              !.tries[m] = @ + 1, !.fetchedAt = now]

(* return from the task function: its locals are gone, its promise is fulfilled *)
Return(c, res) ==
    [c EXCEPT !.pc = "fulfilled", !.result = res, !.mi = 0, !.attempt = 0,
              !.lastError = <<>>, !.wakeAt = 0, !.fetchedAt = 0]

(* the loop over the models ending one model early *)
NextModelStopsEarly(c, lastError) ==
    IF c.mi < Len(c.models) - 1
    THEN Fetch([c EXCEPT !.lastError = lastError], c.mi + 1, 1)
    ELSE Return(c, AllModelsFailed(lastError))

(* the end of one pass of 'for (const model of modelsToTry)' *)
NextModel(c, lastError) ==
    IF c.mi < Len(c.models)
    THEN Fetch([c EXCEPT !.lastError = lastError], c.mi + 1, 1)
    ELSE Return(c, AllModelsFailed(lastError))

(* a backoff that does not grow *)
BackoffWaitFlat(attempt) == BaseBackoff

(* this._baseBackoff * Math.pow(2, attempt - 1) *)
BackoffWait(attempt) == BaseBackoff * Pow2(attempt - 1)

(* lastError assigned only when the attempt is going to be retried *)
RetryOrNextStale(c, lastError) ==
    IF c.attempt < MaxRetries
    THEN [c EXCEPT !.pc = "backoff", !.lastError = lastError,
                   !.wakeAt = now + BackoffWait(c.attempt)]
    ELSE NextModel(c, c.lastError)

(* retry client: 'if (attempt < this._maxRetries) { wait; continue } break' *)
RetryOrNext(c, lastError) ==
    IF c.attempt < MaxRetries
    THEN [c EXCEPT !.pc = "backoff", !.lastError = lastError,
                   !.wakeAt = now + BackoffWait(c.attempt)]
    ELSE NextModel(c, lastError)

CaughtMessage(r) == IF r.msg # <<>> THEN r.msg ELSE NetworkError

(* _callAPI, the body of one attempt after _rawFetch settles *)
AfterResponseRetry(c, r) ==
    IF r.net THEN RetryOrNext(c, CaughtMessage(r))
    ELSE IF ResOk(r)
    THEN LET parsed == ParseJSON(r.text)
         IN  IF parsed.ok
             THEN Return(c, Success([value |-> parsed.value, usedModel |-> 0]))
             ELSE RetryOrNext(c, SyntaxErrorMsg)
    ELSE LET errMsg == ErrMsg(r.status, r.msg)
         IN  IF IsRateLimitError(r.status, errMsg)
             THEN RetryOrNext(c, errMsg)
             ELSE Return(c, Failure(errMsg))

(* _callGemini, the body of one pass after _rawFetch settles *)
AfterResponseSkip(c, r) ==
    LET model == c.models[c.mi]
        pref == c.models[1]
    IN  IF r.net THEN NextModel(c, CaughtMessage(r))
        ELSE IF ResOk(r)
        THEN LET parsed == ParseJSON(r.text)
             IN  IF ~parsed.ok THEN NextModel(c, SyntaxErrorMsg)
                 ELSE IF model # pref /\ parsed.value = "null"
                 THEN NextModel(c, TypeErrorMsg)
                 ELSE Return(c, Success([value |-> parsed.value,
                                         usedModel |-> IF model # pref /\ parsed.value = "object"
                                                       THEN model ELSE 0]))
        ELSE LET errMsg == ErrMsg(r.status, r.msg)
             IN  IF IsRateLimitError(r.status, errMsg)
                 THEN NextModel(c, errMsg)
                 ELSE Return(c, Failure(errMsg))

(* _parseJSON called outside the try block: its SyntaxError rejects the task *)
AfterResponseParseUncaught(c, r) ==
    IF ~r.net /\ ResOk(r) /\ ~ParseJSON(r.text).ok
    THEN [c EXCEPT !.pc = "rejected", !.result = Failure(SyntaxErrorMsg)]
    ELSE IF policy = "retry" THEN AfterResponseRetry(c, r) ELSE AfterResponseSkip(c, r)

AfterResponse(c, r) ==
    IF policy = "retry" THEN AfterResponseRetry(c, r) ELSE AfterResponseSkip(c, r)

Ceil(n, d) == (n + d - 1) \div d

(* the skip client announcing the wait and the attempt of the retry client *)
EventAfterSkipWaits(c, r) ==
    IF r.net \/ ResOk(r) \/ ~IsRateLimitError(r.status, ErrMsg(r.status, r.msg))
    THEN lastEvent
    ELSE [waitSeconds |-> Ceil(BackoffWait(c.mi), 1000),
          model |-> c.models[c.mi], attempt |-> c.mi]

(* window.dispatchEvent(new CustomEvent('gemini-rate-limit', {detail})) *)
EventAfter(c, r) ==
    IF r.net \/ ResOk(r) \/ ~IsRateLimitError(r.status, ErrMsg(r.status, r.msg))
    THEN lastEvent
    ELSE IF policy = "skip"
    THEN [waitSeconds |-> 0, model |-> c.models[c.mi], attempt |-> 1]
    ELSE IF c.attempt < MaxRetries
    THEN [waitSeconds |-> Ceil(BackoffWait(c.attempt), 1000),
          model |-> c.models[c.mi], attempt |-> c.attempt]
    ELSE lastEvent

-----------------------------------------------------------------------------
(* GeminiAPI._enqueue: the promise chain and its pacing *)

Ids == 1..Len(calls)

PosInChain(i) == CHOOSE k \in 1..Len(chain) : chain[k] = i

(* a queue whose callbacks are not chained: each runs as soon as it is submitted *)
PromiseBeforeUnchained(i) == "fulfilled"

(* a queue that hands over to the next task while the task before it backs off *)
PromiseBeforeBackoffYields(i) ==
    IF PosInChain(i) = 1 THEN "fulfilled"
    ELSE LET before == calls[chain[PosInChain(i) - 1]].pc
         IN  IF before = "backoff" THEN "fulfilled"
             ELSE IF before \in {"fulfilled", "rejected"} THEN before ELSE "pending"

(* the state of the promise that _enqueue chained the callback of task i on; *)
(* the chain starts from Promise.resolve()                                   *)
PromiseBefore(i) ==
    IF PosInChain(i) = 1 THEN "fulfilled"
    ELSE LET before == calls[chain[PosInChain(i) - 1]].pc
         IN  IF before \in {"fulfilled", "rejected"} THEN before ELSE "pending"

(* the wait with the parentheses lost *)
EnqueueWaitNoParens == MinRequestGap - now - lastRequestTime

(* const wait = this._minRequestGap - (now - this._lastRequestTime) *)
EnqueueWait == MinRequestGap - (now - lastRequestTime)

(* fn(): a plain task function runs; an invocation starts its first _rawFetch *)
StartFn(c) ==
    IF c.kind = "fn" THEN [c EXCEPT !.pc = "running"] ELSE Fetch(c, 1, 1)

(* fn() called without stamping _lastRequestTime *)
BeginNoStamp(i) ==
    /\ lastRequestTime' = lastRequestTime
    /\ calls' = [calls EXCEPT ![i] = StartFn([@ EXCEPT !.wakeAt = 0])]
    /\ lastStart' = now
    /\ lastFetchAt' = IF calls[i].kind = "fn" THEN lastFetchAt ELSE now

(* this._lastRequestTime = Date.now(); return fn() *)
Begin(i) ==
    /\ lastRequestTime' = now
    /\ calls' = [calls EXCEPT ![i] = StartFn([@ EXCEPT !.wakeAt = 0])]
    /\ lastStart' = now
    /\ lastFetchAt' = IF calls[i].kind = "fn" THEN lastFetchAt ELSE now

(* the callback given to this._requestQueue.then runs *)
RunQueued(i) ==
    /\ calls[i].pc = "queued"
    /\ PromiseBefore(i) = "fulfilled"
    /\ IF EnqueueWait > 0
       THEN /\ calls' = [calls EXCEPT ![i].pc = "pacing", ![i].wakeAt = now + EnqueueWait]
            /\ UNCHANGED <<lastRequestTime, lastStart, lastFetchAt>>
       ELSE Begin(i)
    /\ UNCHANGED <<policy, apiKey, preferred, working, now, chain, lastEvent>>
    /\ UNCHANGED sessVars

(* the pacing setTimeout fires *)
PacingDone(i) ==
    /\ calls[i].pc = "pacing"
    /\ now >= calls[i].wakeAt
    /\ Begin(i)
    /\ UNCHANGED <<policy, apiKey, preferred, working, now, chain, lastEvent>>
    /\ UNCHANGED sessVars

(* a callback chained on a rejected promise never runs: the rejection is passed on *)
PassRejection(i) ==
    /\ calls[i].pc = "queued"
    /\ PromiseBefore(i) = "rejected"
    /\ calls' = [calls EXCEPT ![i].pc = "rejected",
                              ![i].result = calls[chain[PosInChain(i) - 1]].result]
    /\ UNCHANGED <<policy, apiKey, preferred, working, now, lastRequestTime, chain,
                   lastEvent, lastStart, lastFetchAt>>
    /\ UNCHANGED sessVars

-----------------------------------------------------------------------------
(* Plain tasks given to _enqueue *)

ThrownBy(i) == Failure(<<"thrown by task ">> \o Digits(i))
ReturnedBy(i) == Success([value |-> "returned by task", usedModel |-> i])

EnqueueFn ==
    /\ Len(calls) < MaxTasks
    /\ calls' = Append(calls, NewTask("fn", <<>>))
    /\ chain' = Append(chain, Len(calls) + 1)
    /\ UNCHANGED <<policy, apiKey, preferred, working, now, lastRequestTime,
                   lastEvent, lastStart, lastFetchAt>>
    /\ UNCHANGED sessVars

FnReturns(i) ==
    /\ calls[i].pc = "running"
    /\ calls' = [calls EXCEPT ![i] = Return(@, ReturnedBy(i))]
    /\ UNCHANGED <<policy, apiKey, preferred, working, now, lastRequestTime, chain,
                   lastEvent, lastStart, lastFetchAt>>
    /\ UNCHANGED sessVars

FnThrows(i) ==
    /\ calls[i].pc = "running"
    /\ calls' = [calls EXCEPT ![i].pc = "rejected", ![i].result = ThrownBy(i)]
    /\ UNCHANGED <<policy, apiKey, preferred, working, now, lastRequestTime, chain,
                   lastEvent, lastStart, lastFetchAt>>
    /\ UNCHANGED sessVars

-----------------------------------------------------------------------------
(* _callAPI / _callGemini *)

(* a throttle signal as the server sends it: the throttling status code, or *)
(* quota/rate/resource-exhaustion vocabulary in its message                 *)
HasThrottleWords(msg) ==
    \/ Includes(ToLowerCase(msg), WordQuota)
    \/ Includes(ToLowerCase(msg), WordRate)
    \/ Includes(ToLowerCase(msg), WordExhausted)

ThrottleSignal(r) == ~r.net /\ ~ResOk(r) /\ (r.status = 429 \/ HasThrottleWords(r.msg))

(* the credential looked at only inside the queued task *)
CallEnqueuesFirst ==
    /\ Len(calls) < MaxCalls
    /\ calls' = Append(calls, NewTask("call", ModelsToTry))
    /\ chain' = Append(chain, Len(calls) + 1)
    /\ UNCHANGED <<policy, apiKey, preferred, working, now, lastRequestTime,
                   lastEvent, lastStart, lastFetchAt>>
    /\ UNCHANGED sessVars

(* the synchronous head of the invocation, up to 'return this._enqueue(...)' *)
Call ==
    /\ Len(calls) < MaxCalls
    /\ IF apiKey = ""
       THEN /\ calls' = Append(calls, [NewTask("call", <<>>) EXCEPT
                                          !.pc = "returned",
                                          !.result = Failure(KeyNotConfigured)])
            /\ UNCHANGED chain
       ELSE /\ calls' = Append(calls, NewTask("call", ModelsToTry))
            /\ chain' = Append(chain, Len(calls) + 1)
    /\ UNCHANGED <<policy, apiKey, preferred, working, now, lastRequestTime,
                   lastEvent, lastStart, lastFetchAt>>
    /\ UNCHANGED sessVars

(* _rawFetch settles with r and the invocation runs on to its next await or return *)
Respond(i, r) ==
    /\ calls[i].pc = "http"
    /\ calls' = [calls EXCEPT ![i] =
                   [AfterResponse(@, r) EXCEPT !.lastResp = r,
                                               !.allThrottled = @ /\ ThrottleSignal(r)]]
    /\ lastEvent' = EventAfter(calls[i], r)
    /\ lastFetchAt' = IF calls'[i].pc = "http" THEN now ELSE lastFetchAt
    /\ UNCHANGED <<policy, apiKey, preferred, working, now, lastRequestTime, chain,
                   lastStart>>
    /\ UNCHANGED sessVars

(* the attempt counter not advanced by 'continue' *)
BackoffDoneSameAttempt(i) ==
    /\ calls[i].pc = "backoff"
    /\ now >= calls[i].wakeAt
    /\ calls' = [calls EXCEPT ![i] = Fetch(@, @.mi, @.attempt)]
    /\ lastFetchAt' = now
    /\ UNCHANGED <<policy, apiKey, preferred, working, now, lastRequestTime, chain,
                   lastEvent, lastStart>>
    /\ UNCHANGED sessVars

(* the backoff setTimeout fires: 'continue' to the next attempt on the same model *)
BackoffDone(i) ==
    /\ calls[i].pc = "backoff"
    /\ now >= calls[i].wakeAt
    /\ calls' = [calls EXCEPT ![i] = Fetch(@, @.mi, @.attempt + 1)]
    /\ lastFetchAt' = now
    /\ UNCHANGED <<policy, apiKey, preferred, working, now, lastRequestTime, chain,
                   lastEvent, lastStart>>
    /\ UNCHANGED sessVars

(* the clock *)
Tick ==
    /\ now < Horizon
    /\ now' = now + TickMs
    /\ UNCHANGED <<policy, apiKey, preferred, working, lastRequestTime, chain, calls,
                   lastEvent, lastStart, lastFetchAt>>
    /\ UNCHANGED sessVars

(* time passes until the earliest pending setTimeout is due; sleeping are   *)
(* the invocations waiting in a setTimeout that is not due yet              *)
TimerDue ==
    /\ LET sleeping == {i \in Ids : /\ calls[i].pc \in {"pacing", "backoff"}
                                    /\ calls[i].wakeAt > now}
       IN  /\ sleeping # {}
           /\ now' = CHOOSE t \in {calls[i].wakeAt : i \in sleeping} :
                         \A i \in sleeping : t <= calls[i].wakeAt
    /\ UNCHANGED <<policy, apiKey, preferred, working, lastRequestTime, chain, calls,
                   lastEvent, lastStart, lastFetchAt>>
    /\ UNCHANGED sessVars

-----------------------------------------------------------------------------
(* The session store (Storage) and what the model reports *)

(* an optional number of a JSON object: the field is absent, or holds num *)
Undefined == [defined |-> FALSE, num |-> 0]
Num(n) == [defined |-> TRUE, num |-> n]

(* v || fallback for an optional number: undefined and 0 are falsy *)
OrNumber(v, fallback) == IF v.defined /\ v.num # 0 THEN v.num ELSE fallback

(* v || fallback for an optional string; "undefined" stands for an absent field *)
OrString(v, fallback) == IF v = "undefined" THEN fallback ELSE v

(* an optional list of strings of a JSON object *)
NoList == [defined |-> FALSE, items |-> <<>>]
List(items) == [defined |-> TRUE, items |-> items]

(* understanding_signals, each of its three lists optional *)
Signals(correct, misconceptions, gaps) ==
    [correct_insights |-> correct, misconceptions |-> misconceptions, gaps |-> gaps]

(* aiData.understanding_signals || {}: no list is present *)
NoSignals == Signals(NoList, NoList, NoList)

(* JSON null, as result.data and as the summary of a session not yet ended *)
NullValue == [isNull |-> TRUE, understanding_score |-> Undefined,
              difficulty_level |-> "undefined", overall_understanding |-> Undefined,
              understanding_signals |-> NoSignals]

(* the per-turn object and the summary object, with the fields the page reads *)
TurnObject(score, level) ==
    [isNull |-> FALSE, understanding_score |-> score,
     difficulty_level |-> level, overall_understanding |-> Undefined,
     understanding_signals |-> NoSignals]

(* a per-turn object that carries understanding_signals *)
TurnWithSignals(score, level, signals) ==
    [TurnObject(score, level) EXCEPT !.understanding_signals = signals]

SummaryObject(overall) ==
    [isNull |-> FALSE, understanding_score |-> Undefined,
     difficulty_level |-> "undefined", overall_understanding |-> overall,
     understanding_signals |-> NoSignals]

SummaryScores == {Undefined, Num(0), Num(40), Num(80)}

(* the per-turn answers of the model: no field at all, each level of the     *)
(* order with a score of its own (one of them 0, one above 100), a level     *)
(* name that is not in the order, and JSON null                              *)
TurnAnswers ==
    {TurnObject(Undefined, "undefined"), TurnObject(Num(20), "foundational"),
     TurnObject(Num(65), "intermediate"), TurnObject(Num(150), "advanced"),
     TurnObject(Num(0), "mastery"), TurnObject(Num(65), "expert"), NullValue}
OpeningAnswers == {TurnObject(Num(20), "foundational"), NullValue}
SummaryAnswers == {SummaryObject(o) : o \in SummaryScores} \cup {NullValue}

(* the result object of GeminiAPI.startSession / continueDialogue / generateSessionSummary *)
Succeeded(data) == [success |-> TRUE, data |-> data]
Failed == [success |-> FALSE, data |-> NullValue]

ResultsOf(answers) == {Succeeded(d) : d \in answers} \cup {Failed}

(* nothing has been called on its own yet *)
NoCall == [fn |-> "none", arg |-> "none", before |-> "none", result |-> "none", n |-> 0]

(* one turn of conversation_history; a student response is named by its number *)
UserTurn(n) == [role |-> "user", response |-> n, content |-> NullValue]
AssistantTurn(data) == [role |-> "assistant", response |-> 0, content |-> data]

(* Storage.createSession: the record it stores *)
NewSession(id, topic) ==
    [id |-> id, topic |-> topic, ended_at |-> "null", is_active |-> TRUE,
     total_exchanges |-> 0, final_understanding_score |-> 0,
     highest_difficulty |-> "foundational", hints_used |-> 0,
     summary |-> NullValue, conversation_history |-> <<>>]

(* sessions.findIndex(s => s.id === id), 1-based, 0 when absent *)
FindIndex(ss, id) ==
    IF \E k \in 1..Len(ss) : ss[k].id = id
    THEN CHOOSE k \in 1..Len(ss) : ss[k].id = id /\ \A j \in 1..(k - 1) : ss[j].id # id
    ELSE 0

HasSession(id) == FindIndex(sessions, id) # 0

(* Storage.getSession(id), for an id in the store *)
GetSession(id) == sessions[FindIndex(sessions, id)]

(* Object.assign(target, updates) *)
Assign(target, updates) ==
    [f \in DOMAIN target |-> IF f \in DOMAIN updates THEN updates[f] ELSE target[f]]

(* the session replaced by a new record that carries the updates *)
UpdateSessionReplace(ss, id, updates) ==
    IF FindIndex(ss, id) = 0 THEN ss
    ELSE [ss EXCEPT ![FindIndex(ss, id)] = Assign(NewSession(@.id, @.topic), updates)]

(* Storage.updateSession(id, updates): the stored list afterwards *)
UpdateSession(ss, id, updates) ==
    IF FindIndex(ss, id) = 0 THEN ss
    ELSE [ss EXCEPT ![FindIndex(ss, id)] = Assign(@, updates)]

(* Storage.updateSession(id, updates): what it returns *)
UpdateSessionReturns(ss, id, updates) ==
    IF FindIndex(ss, id) = 0 THEN "null"
    ELSE UpdateSession(ss, id, updates)[FindIndex(ss, id)]

-----------------------------------------------------------------------------
(* Stats. average_understanding has one decimal and is kept in tenths; the   *)
(* learning minutes need the wall clock of the page and are left out         *)

(* the record _getStats gives when nothing is stored *)
InitialStats ==
    [total_sessions |-> 0, total_exchanges |-> 0, average_understanding |-> 0,
     topics_explored |-> <<>>]

(* allCompleted.reduce((sum, s) => sum + s.final_understanding_score, 0) *)
RECURSIVE SumScores(_)
SumScores(ss) ==
    IF ss = <<>> THEN 0 ELSE Head(ss).final_understanding_score + SumScores(Tail(ss))

(* Math.round(sum / n * 10), the tenths of Math.round(avg * 10) / 10 *)
RoundTenths(sum, n) == (20 * sum + n) \div (2 * n)

(* array.includes(item) *)
ArrayIncludes(list, item) == \E k \in 1..Len(list) : list[k] = item

(* the average kept as a running mean of the sessions counted so far *)
UpdateStatsIncremental(st, ss, session) ==
    [total_sessions |-> st.total_sessions + 1,
     total_exchanges |-> st.total_exchanges + session.total_exchanges,
     average_understanding |->
         RoundTenths(st.average_understanding * st.total_sessions
                         + 10 * session.final_understanding_score,
                     10 * (st.total_sessions + 1)),
     topics_explored |->
         IF ArrayIncludes(st.topics_explored, session.topic)
         THEN st.topics_explored
         ELSE Append(st.topics_explored, session.topic)]

(* Storage.updateStatsOnSessionEnd(session), ss being the stored sessions *)
UpdateStatsOnSessionEnd(st, ss, session) ==
    LET allCompleted == SelectSeq(ss, LAMBDA s : ~s.is_active)
    IN  [total_sessions |-> st.total_sessions + 1,
         total_exchanges |-> st.total_exchanges + session.total_exchanges,
         average_understanding |->
             IF Len(allCompleted) > 0
             THEN RoundTenths(SumScores(allCompleted), Len(allCompleted))
             ELSE st.average_understanding,
         topics_explored |->
             IF ArrayIncludes(st.topics_explored, session.topic)
             THEN st.topics_explored
             ELSE Append(st.topics_explored, session.topic)]

-----------------------------------------------------------------------------
(* handleStartSession, loadSession, handleResponse, handleEndSession *)

difficultyOrder == <<"foundational", "intermediate", "advanced", "mastery">>

(* difficultyOrder.indexOf(level), 0-based, -1 when absent *)
IndexOfLevel(level) ==
    IF \E k \in 1..Len(difficultyOrder) : difficultyOrder[k] = level
    THEN (CHOOSE k \in 1..Len(difficultyOrder) : difficultyOrder[k] = level) - 1
    ELSE -1

Max(a, b) == IF a >= b THEN a ELSE b

(* the reported score written over the stored one *)
ScoreAfterOverwrite(session, aiData) == OrNumber(aiData.understanding_score, 0)

(* Math.max(session.final_understanding_score || 0, score) *)
ScoreAfter(session, aiData) ==
    Max(session.final_understanding_score, OrNumber(aiData.understanding_score, 0))

(* the reported level written over the stored one *)
HighestAfterOverwrite(session, aiData) == OrString(aiData.difficulty_level, "foundational")

(* newIdx > currentIdx ? difficulty : session.highest_difficulty *)
HighestAfter(session, aiData) ==
    LET difficulty == OrString(aiData.difficulty_level, "foundational")
        currentIdx == IndexOfLevel(OrString(session.highest_difficulty, "foundational"))
        newIdx == IndexOfLevel(difficulty)
    IN  IF newIdx > currentIdx THEN difficulty ELSE session.highest_difficulty

RemoveAt(q, k) == SubSeq(q, 1, k - 1) \o SubSeq(q, k + 1, Len(q))

(* every item of the list pushed, present or not *)
PushAll(all, list) == all \o list.items

(* list.forEach(i => { if (!all.includes(i)) all.push(i); }), for a list     *)
(* that is present                                                           *)
RECURSIVE PushNew(_, _)
PushNew(all, list) ==
    IF ~list.defined \/ list.items = <<>> THEN all
    ELSE PushNew(IF ArrayIncludes(all, Head(list.items)) THEN all
                 ELSE Append(all, Head(list.items)),
                 List(Tail(list.items)))

(* the gaps replaced by a list that has items only *)
GapsAfterNonEmpty(gaps, signals) ==
    IF signals.gaps.defined /\ signals.gaps.items # <<>> THEN signals.gaps.items ELSE gaps

(* if (signals.gaps) allGaps = signals.gaps: an empty array is truthy *)
GapsAfter(gaps, signals) ==
    IF signals.gaps.defined THEN signals.gaps.items ELSE gaps

(* the three arrays of the insight panel after updateUI(aiData) *)
PanelAfter(panel, aiData) ==
    LET signals == aiData.understanding_signals
    IN  <<PushNew(panel[1], signals.correct_insights),
          PushNew(panel[2], signals.misconceptions),
          GapsAfter(panel[3], signals)>>

(* the arrays as the script of session.html declares them *)
EmptyPanel == <<<<>>, <<>>, <<>>>>

(* the panel after loadSession: if (lastAI && lastAI.content)                *)
(* updateUI(lastAI.content), lastAI being                                    *)
(* [...history].reverse().find(e => e.role === 'assistant')                  *)
PanelOnLoad(history) ==
    LET assistants == {k \in 1..Len(history) : history[k].role = "assistant"}
        last == CHOOSE k \in assistants : \A j \in assistants : j <= k
    IN  IF assistants = {} \/ history[last].content.isNull THEN EmptyPanel
        ELSE PanelAfter(EmptyPanel, history[last].content)

(* the three arrays of the page become panel *)
ShowPanel(panel) ==
    /\ allCorrectInsights' = panel[1]
    /\ allMisconceptions' = panel[2]
    /\ allGaps' = panel[3]

-----------------------------------------------------------------------------
(* GeminiAPI.continueDialogue: the messages it hands to _callAPI *)

(* a message: its role, and what its content was made from; a student       *)
(* response is named by its number                                           *)
Message(role, kind, response, data) ==
    [role |-> role, kind |-> kind, response |-> response, data |-> data]

(* the message made from one entry of the history *)
MessageOf(entry) ==
    IF entry.role = "assistant"
    THEN Message("assistant", "question", 0, entry.content)
    ELSE Message("user", "response", entry.response, NullValue)

(* continueDialogue(topic, conversationHistory, studentResponse): messages; *)
(* trimmed is conversationHistory.slice(-this._maxHistory), and the first   *)
(* two messages are the topic and a canned first question                   *)
ContinueDialogue(conversationHistory, studentResponse) ==
    LET n == Len(conversationHistory)
        trimmed == IF n <= MaxHistory THEN conversationHistory
                   ELSE SubSeq(conversationHistory, n - MaxHistory + 1, n)
    IN  <<Message("user", "topic", 0, NullValue),
          Message("assistant", "canned", 0, NullValue)>>
            \o [k \in 1..Len(trimmed) |-> MessageOf(trimmed[k])]
            \o <<Message("user", "response", studentResponse, NullValue)>>

-----------------------------------------------------------------------------
(* a handler suspended at its await: session is what Storage.getSession gave  *)
(* it when it started; messages is what it gave the model (the summary call  *)
(* is given a text, not messages); overlapped is history: another handler    *)
(* was suspended at some moment of this one's life                           *)
Suspend(kind, convHistory, messages) ==
    Append([k \in 1..Len(pending) |-> [pending[k] EXCEPT !.overlapped = TRUE]],
           [kind |-> kind, session |-> GetSession(SESSION_ID),
            convHistory |-> convHistory, messages |-> messages,
            overlapped |-> pending # <<>>])

(* what handleStartSession did last: nothing, or how it ended *)
StartCall(topic, outcome) ==
    [fn |-> "handleStartSession", arg |-> topic, before |-> "none",
     result |-> outcome, n |-> 0]

(* handleStartSession counting the opening answer as the first exchange and *)
(* folding its score and level into the stored session                       *)
StartSessionFoldsOpening(result, topic) ==
    /\ page = "index"
    /\ Len(sessions) < MaxSessions
    /\ apiKey # ""
    /\ IF result.success
       THEN LET sessionId == Len(sessions) + 1
                session == NewSession(sessionId, topic)
            IN  /\ sessions' = UpdateSession(<<session>> \o sessions, sessionId,
                       [conversation_history |-> <<AssistantTurn(result.data)>>,
                        total_exchanges |-> 1,
                        final_understanding_score |-> ScoreAfter(session, result.data),
                        highest_difficulty |-> HighestAfter(session, result.data)])
                /\ page' = "session"
                /\ SESSION_ID' = sessionId
                /\ exchangeCount' = 1
                /\ ShowPanel(PanelOnLoad(<<AssistantTurn(result.data)>>))
                /\ lastCall' = StartCall(topic, "started")
       ELSE /\ lastCall' = StartCall(topic, "failed")
            /\ UNCHANGED <<sessions, page, SESSION_ID, exchangeCount, uiVars>>
    /\ UNCHANGED <<stats, pending, submitted>>
    /\ UNCHANGED apiVars

(* handleStartSession storing the session before it awaits the opening call *)
StartSessionCreatesFirst(result, topic) ==
    /\ page = "index"
    /\ Len(sessions) < MaxSessions
    /\ IF apiKey = ""
       THEN /\ lastCall' = StartCall(topic, "no credential")
            /\ UNCHANGED <<sessions, page, SESSION_ID, exchangeCount, uiVars>>
       ELSE LET sessionId == Len(sessions) + 1
                created == <<NewSession(sessionId, topic)>> \o sessions
            IN  IF result.success
                THEN /\ sessions' = UpdateSession(created, sessionId,
                            [conversation_history |-> <<AssistantTurn(result.data)>>])
                     /\ page' = "session"
                     /\ SESSION_ID' = sessionId
                     /\ exchangeCount' = NewSession(sessionId, topic).total_exchanges
                     /\ ShowPanel(PanelOnLoad(<<AssistantTurn(result.data)>>))
                     /\ lastCall' = StartCall(topic, "started")
                ELSE /\ sessions' = created
                     /\ lastCall' = StartCall(topic, "failed")
                     /\ UNCHANGED <<page, SESSION_ID, exchangeCount, uiVars>>
    /\ UNCHANGED <<stats, pending, submitted>>
    /\ UNCHANGED apiVars

(* handleStartSession on the index page, its model call answered by result,  *)
(* then session.html loads and runs loadSession                              *)
StartSession(result, topic) ==
    /\ page = "index"
    /\ Len(sessions) < MaxSessions
    /\ IF apiKey = ""
       THEN /\ lastCall' = StartCall(topic, "no credential")
            /\ UNCHANGED <<sessions, page, SESSION_ID, exchangeCount, uiVars>>
       ELSE IF result.success
       THEN LET sessionId == Len(sessions) + 1
            IN  /\ sessions' = UpdateSession(<<NewSession(sessionId, topic)>> \o sessions,
                                   sessionId,
                                   [conversation_history |-> <<AssistantTurn(result.data)>>])
                /\ page' = "session"
                /\ SESSION_ID' = sessionId
                /\ exchangeCount' = NewSession(sessionId, topic).total_exchanges
                /\ ShowPanel(PanelOnLoad(<<AssistantTurn(result.data)>>))
                /\ lastCall' = StartCall(topic, "started")
       ELSE /\ lastCall' = StartCall(topic, "failed")
            /\ UNCHANGED <<sessions, page, SESSION_ID, exchangeCount, uiVars>>
    /\ UNCHANGED <<stats, pending, submitted>>
    /\ UNCHANGED apiVars

(* session.html?id=<id> is opened or reloaded: loadSession *)
LoadSession(id) ==
    /\ HasSession(id)
    /\ page' = "session"
    /\ SESSION_ID' = id
    /\ exchangeCount' = GetSession(id).total_exchanges
    /\ pending' = <<>>
    /\ ShowPanel(PanelOnLoad(GetSession(id).conversation_history))
    /\ UNCHANGED <<sessions, stats, submitted>>
    /\ UNCHANGED <<apiVars, lastCall>>

(* back to index.html: the page's handlers are gone *)
GoHome ==
    /\ page # "index"
    /\ page' = "index"
    /\ SESSION_ID' = 0
    /\ exchangeCount' = 0
    /\ pending' = <<>>
    /\ ShowPanel(EmptyPanel)
    /\ UNCHANGED <<sessions, stats, submitted>>
    /\ UNCHANGED <<apiVars, lastCall>>

(* handleResponse not adding the student response to the history *)
SubmitResponseNoUserTurn ==
    /\ page = "session"
    /\ HasSession(SESSION_ID)
    /\ submitted < MaxTurns
    /\ Len(pending) < MaxPending
    /\ submitted' = submitted + 1
    /\ LET convHistory == GetSession(SESSION_ID).conversation_history
       IN  pending' = Suspend("response", convHistory,
                              ContinueDialogue(convHistory, submitted + 1))
    /\ UNCHANGED <<sessions, stats, page, SESSION_ID, exchangeCount>>
    /\ UNCHANGED <<apiVars, uiVars, lastCall>>

(* handleResponse up to 'await GeminiAPI.continueDialogue' (form submit or Enter) *)
SubmitResponse ==
    /\ page = "session"
    /\ HasSession(SESSION_ID)
    /\ submitted < MaxTurns
    /\ Len(pending) < MaxPending
    /\ submitted' = submitted + 1
    /\ LET convHistory == Append(GetSession(SESSION_ID).conversation_history,
                                 UserTurn(submitted + 1))
       IN  pending' = Suspend("response", convHistory,
                              ContinueDialogue(convHistory, submitted + 1))
    /\ UNCHANGED <<sessions, stats, page, SESSION_ID, exchangeCount>>
    /\ UNCHANGED <<apiVars, uiVars, lastCall>>

(* handleResponse from the await on: the model call of handler k gave result *)
ResponseReturns(k, result) ==
    /\ pending[k].kind = "response"
    /\ LET session == pending[k].session
           convHistory == pending[k].convHistory
           aiData == result.data
       IN  IF result.success
           THEN /\ exchangeCount' = exchangeCount + 1
                /\ IF aiData.isNull
                   THEN UNCHANGED <<sessions, uiVars>>
                   ELSE /\ sessions' = UpdateSession(sessions, SESSION_ID,
                             [conversation_history |->
                                  Append(convHistory, AssistantTurn(aiData)),
                              total_exchanges |-> exchangeCount + 1,
                              final_understanding_score |-> ScoreAfter(session, aiData),
                              highest_difficulty |-> HighestAfter(session, aiData)])
                        /\ ShowPanel(PanelAfter(uiVars, aiData))
           ELSE /\ sessions' = UpdateSession(sessions, SESSION_ID,
                                   [conversation_history |-> convHistory])
                /\ UNCHANGED <<exchangeCount, uiVars>>
    /\ pending' = RemoveAt(pending, k)
    /\ UNCHANGED <<stats, page, SESSION_ID, submitted>>
    /\ UNCHANGED <<apiVars, lastCall>>

(* handleEndSession up to 'await GeminiAPI.generateSessionSummary' *)
ConfirmEnd ==
    /\ page = "session"
    /\ HasSession(SESSION_ID)
    /\ Len(pending) < MaxPending
    /\ stats.total_sessions < MaxEnds
    /\ \A k \in 1..Len(pending) : pending[k].kind # "end"
    /\ pending' = Suspend("end", GetSession(SESSION_ID).conversation_history, <<>>)
    /\ UNCHANGED <<sessions, stats, page, SESSION_ID, exchangeCount, submitted>>
    /\ UNCHANGED <<apiVars, uiVars, lastCall>>

(* the updates object resetting the score when no summary came *)
EndUpdatesResetOnFailure(session, summaryResult) ==
    IF summaryResult.success
    THEN [is_active |-> FALSE, ended_at |-> "set", summary |-> summaryResult.data,
          final_understanding_score |->
              OrNumber(summaryResult.data.overall_understanding,
                       session.final_understanding_score)]
    ELSE [is_active |-> FALSE, ended_at |-> "set", final_understanding_score |-> 0]

(* the updates object of handleEndSession *)
EndUpdates(session, summaryResult) ==
    IF summaryResult.success
    THEN [is_active |-> FALSE, ended_at |-> "set", summary |-> summaryResult.data,
          final_understanding_score |->
              OrNumber(summaryResult.data.overall_understanding,
                       session.final_understanding_score)]
    ELSE [is_active |-> FALSE, ended_at |-> "set"]

(* handleEndSession from the await on; review.html replaces the page unless  *)
(* reading a field of a null summary threw                                   *)
SummaryReturns(k, summaryResult) ==
    /\ pending[k].kind = "end"
    /\ IF summaryResult.success /\ summaryResult.data.isNull
       THEN /\ pending' = RemoveAt(pending, k)
            /\ UNCHANGED <<sessions, stats, page, exchangeCount, uiVars>>
       ELSE /\ sessions' = UpdateSession(sessions, SESSION_ID,
                               EndUpdates(pending[k].session, summaryResult))
            /\ stats' = UpdateStatsOnSessionEnd(stats, sessions',
                                                sessions'[FindIndex(sessions', SESSION_ID)])
            /\ page' = "review"
            /\ exchangeCount' = 0
            /\ pending' = <<>>
            /\ ShowPanel(EmptyPanel)
    /\ UNCHANGED <<SESSION_ID, submitted>>
    /\ UNCHANGED <<apiVars, lastCall>>

-----------------------------------------------------------------------------
(* updateUI: the insight panel of the session page. A list of the model's    *)
(* understanding_signals may be absent                                       *)

(* an answer as far as updateUI's panel reads it; an answer without          *)
(* understanding_signals reads as one whose three lists are absent           *)
WithSignals(signals) == [understanding_signals |-> signals]

CorrectLists ==
    {NoList, List(<<"a">>), List(<<"a", "b">>), List(<<"b", "b">>), List(<<"b", "a">>)}
MisconceptionLists == {NoList, List(<<"x">>), List(<<"y", "x">>)}
GapLists == {NoList, List(<<>>), List(<<"g">>), List(<<"h", "g">>)}

SignalAnswers ==
    {WithSignals(Signals(c, m, g)) :
        c \in CorrectLists, m \in MisconceptionLists, g \in GapLists}

(* updateUI(aiData), called by handleResponse and by loadSession *)
UpdateUI(aiData) ==
    /\ page = "session"
    /\ lastCall.n < MaxFolds
    /\ LET signals == aiData.understanding_signals
       IN  /\ allCorrectInsights' = PushNew(allCorrectInsights, signals.correct_insights)
           /\ allMisconceptions' = PushNew(allMisconceptions, signals.misconceptions)
           /\ allGaps' = GapsAfter(allGaps, signals)
    /\ lastCall' = [fn |-> "updateUI", arg |-> aiData,
                    before |-> <<allCorrectInsights, allMisconceptions, allGaps>>,
                    result |-> "undefined", n |-> lastCall.n + 1]
    /\ UNCHANGED <<sessions, stats, page, SESSION_ID, exchangeCount, pending, submitted>>
    /\ UNCHANGED apiVars

-----------------------------------------------------------------------------
(* The functions of Storage called on their own *)

Topics == {"Recursion", "Sorting"}

(* updates objects: what handleResponse stores for a first answer, what      *)
(* handleHint stores, what handleEndSession stores when the summary failed   *)
UpdateObjects ==
    {[total_exchanges |-> 1, final_understanding_score |-> 20],
     [hints_used |-> 1],
     [is_active |-> FALSE, ended_at |-> "set"]}

(* Storage.createSession(id, topic, context) *)
CreateSession(topic) ==
    /\ Len(sessions) < MaxStored
    /\ lastCall.n < MaxStoreCalls
    /\ LET session == NewSession(Len(sessions) + 1, topic)
       IN  /\ sessions' = <<session>> \o sessions
           /\ lastCall' = [fn |-> "createSession", arg |-> [id |-> session.id, topic |-> topic],
                           before |-> "none", result |-> session, n |-> lastCall.n + 1]
    /\ UNCHANGED <<stats, page, SESSION_ID, exchangeCount, pending, submitted>>
    /\ UNCHANGED <<apiVars, uiVars>>

(* Storage.updateSession(id, updates) *)
UpdateSessionCall(id, updates) ==
    /\ lastCall.n < MaxStoreCalls
    /\ sessions' = UpdateSession(sessions, id, updates)
    /\ lastCall' = [fn |-> "updateSession", arg |-> [id |-> id, updates |-> updates],
                    before |-> "none", result |-> UpdateSessionReturns(sessions, id, updates),
                    n |-> lastCall.n + 1]
    /\ UNCHANGED <<stats, page, SESSION_ID, exchangeCount, pending, submitted>>
    /\ UNCHANGED <<apiVars, uiVars>>

-----------------------------------------------------------------------------
(* _parseJSON called on its own, on the texts a model may answer with *)

Tag == <<"j", "s", "o", "n">>
Tags == {<<>>, Tag}
Margins == {<<>>, <<" ">>, <<"\n">>}
JsonTexts == {JsonObject, JsonNull, JsonNumber}
NonJsonTexts == {TextGarbage, <<"{">>}

LineBreak(present) == IF present THEN <<"\n">> ELSE <<>>

Plain(lead, body, trail) == lead \o body \o trail

Wrapped(lead, tag, breakAfter, body, breakBefore, trail) ==
    lead \o Fence \o tag \o LineBreak(breakAfter) \o body
         \o LineBreak(breakBefore) \o Fence \o trail

ModelTexts ==
    {Plain(lead, body, trail) :
        lead \in Margins, body \in JsonTexts \cup NonJsonTexts, trail \in Margins}
    \cup
    {Wrapped(m[1], t, b[1], body, b[2], m[2]) :
        m \in Margins \X Margins, t \in Tags, b \in BOOLEAN \X BOOLEAN,
        body \in JsonTexts \cup NonJsonTexts}

(* _parseJSON(text) *)
ParseText(text) ==
    /\ lastCall.n < MaxParses
    /\ lastCall' = [fn |-> "_parseJSON", arg |-> text, before |-> "none",
                    result |-> ParseJSON(text), n |-> lastCall.n + 1]
    /\ UNCHANGED <<sessions, stats, page, SESSION_ID, exchangeCount, pending, submitted>>
    /\ UNCHANGED <<apiVars, uiVars>>

-----------------------------------------------------------------------------
(* Specifications *)

WorkingLists ==
    {SelectSeq(ALL_MODELS, LAMBDA m : m \in S) : S \in (SUBSET (1..NumModels)) \ {{}}}

(* the store is empty and the index page is shown *)
InitPage ==
    /\ sessions = <<>>
    /\ stats = InitialStats
    /\ allCorrectInsights = <<>>
    /\ allMisconceptions = <<>>
    /\ allGaps = <<>>
    /\ lastCall = NoCall
    /\ page = "index"
    /\ SESSION_ID = 0
    /\ exchangeCount = 0
    /\ pending = <<>>
    /\ submitted = 0

InitCommon ==
    /\ now = Epoch
    /\ lastRequestTime = 0
    /\ chain = <<>>
    /\ calls = <<>>
    /\ lastEvent = NoEvent
    /\ lastStart = -1
    /\ lastFetchAt = -1
    /\ InitPage

Init ==
    /\ policy \in {"retry", "skip"}
    /\ apiKey \in {"", "key"}
    /\ IF policy = "retry"
       THEN preferred = 1 /\ working = ALL_MODELS
       ELSE preferred \in 1..NumModels /\ working \in WorkingLists
    /\ InitCommon

Next ==
    \/ Call
    \/ \E i \in Ids : RunQueued(i)
    \/ \E i \in Ids : PacingDone(i)
    \/ \E i \in Ids : \E r \in Responses : Respond(i, r)
    \/ \E i \in Ids : BackoffDone(i)
    \/ Tick

Spec == Init /\ [][Next]_vars

(* the invocations under the scheduling the runtime gives them: a queued    *)
(* callback whose promise is settled runs, a due timer fires, time passes   *)
(* while a timer is pending, and every _rawFetch settles                    *)
NextL ==
    \/ Call
    \/ \E i \in Ids : RunQueued(i)
    \/ \E i \in Ids : PacingDone(i)
    \/ \E i \in Ids : \E r \in Responses : Respond(i, r)
    \/ \E i \in Ids : BackoffDone(i)
    \/ TimerDue

SpecL ==
    /\ Init
    /\ [][NextL]_vars
    /\ WF_vars(TimerDue)
    /\ \A i \in 1..MaxCalls :
           /\ WF_vars(i \in Ids /\ RunQueued(i))
           /\ WF_vars(i \in Ids /\ PacingDone(i))
           /\ WF_vars(i \in Ids /\ BackoffDone(i))
           /\ WF_vars(i \in Ids /\ \E r \in Responses : Respond(i, r))

(* the scheduler alone, given plain tasks that return or throw *)
InitQ ==
    /\ policy \in {"retry", "skip"}
    /\ apiKey = "key"
    /\ preferred = 1
    /\ working = ALL_MODELS
    /\ InitCommon

NextQ ==
    \/ EnqueueFn
    \/ \E i \in Ids : RunQueued(i)
    \/ \E i \in Ids : PacingDone(i)
    \/ \E i \in Ids : PassRejection(i)
    \/ \E i \in Ids : FnReturns(i)
    \/ \E i \in Ids : FnThrows(i)
    \/ Tick

SpecQ == InitQ /\ [][NextQ]_vars

(* the pages and the store, given the results of the model calls *)
InitS ==
    /\ policy = "retry"
    /\ apiKey \in {"", "key"}
    /\ preferred = 1
    /\ working = ALL_MODELS
    /\ InitCommon

NextS ==
    \/ \E r \in ResultsOf(OpeningAnswers) : StartSession(r, "Recursion")
    \/ \E id \in 1..MaxSessions : LoadSession(id)
    \/ GoHome
    \/ SubmitResponse
    \/ \E k \in 1..Len(pending) : \E r \in ResultsOf(TurnAnswers) : ResponseReturns(k, r)
    \/ ConfirmEnd
    \/ \E k \in 1..Len(pending) : \E r \in ResultsOf(SummaryAnswers) : SummaryReturns(k, r)

SpecS == InitS /\ [][NextS]_vars

(* the store with several sessions: Storage's functions called on their own, *)
(* and sessions opened and ended on the session page                         *)
InitT == InitS /\ apiKey = "key"

NextT ==
    \/ \E topic \in Topics : CreateSession(topic)
    \/ \E id \in 1..(MaxStored + 1) : \E updates \in UpdateObjects :
           UpdateSessionCall(id, updates)
    \/ \E id \in 1..MaxStored : LoadSession(id)
    \/ GoHome
    \/ ConfirmEnd
    \/ \E k \in 1..Len(pending) :
           \E r \in ResultsOf({SummaryObject(Num(80)), NullValue}) : SummaryReturns(k, r)

SpecT == InitT /\ [][NextT]_vars

(* the parser of the model's answers, given their texts *)
InitP == InitS /\ apiKey = "key"

NextP == \E text \in ModelTexts : ParseText(text)

SpecP == InitP /\ [][NextP]_vars

(* the session page over its reloads, the model's answers carrying           *)
(* understanding_signals                                                     *)
SignalTurns ==
    {TurnWithSignals(Num(20), "foundational",
                     Signals(List(<<"a">>), List(<<"x">>), List(<<"g">>))),
     TurnWithSignals(Num(65), "intermediate",
                     Signals(List(<<"b", "a">>), NoList, List(<<>>))),
     TurnObject(Num(65), "intermediate")}

NextR ==
    \/ \E r \in ResultsOf(SignalTurns) : StartSession(r, "Recursion")
    \/ \E id \in 1..MaxSessions : LoadSession(id)
    \/ SubmitResponse
    \/ \E k \in 1..Len(pending) : \E r \in ResultsOf(SignalTurns) : ResponseReturns(k, r)

SpecR == InitT /\ [][NextR]_vars

(* the insight panel of one load of the session page, given the answers      *)
(* handed to updateUI                                                        *)
InitU ==
    /\ policy = "retry"
    /\ apiKey = "key"
    /\ preferred = 1
    /\ working = ALL_MODELS
    /\ now = Epoch
    /\ lastRequestTime = 0
    /\ chain = <<>>
    /\ calls = <<>>
    /\ lastEvent = NoEvent
    /\ lastStart = -1
    /\ lastFetchAt = -1
    /\ sessions = <<NewSession(1, "Recursion")>>
    /\ stats = InitialStats
    /\ page = "session"
    /\ SESSION_ID = 1
    /\ exchangeCount = 0
    /\ pending = <<>>
    /\ submitted = 0
    /\ allCorrectInsights = <<>>
    /\ allMisconceptions = <<>>
    /\ allGaps = <<>>
    /\ lastCall = NoCall

NextU == \E aiData \in SignalAnswers : UpdateUI(aiData)

SpecU == InitU /\ [][NextU]_vars

-----------------------------------------------------------------------------
(* Properties *)

Finished(i) == calls[i].pc \in {"fulfilled", "rejected"}

(* the task function of task i has been called *)
HasRun(i) ==
    \/ calls[i].pc \in {"running", "http", "backoff", "fulfilled"}
    \/ calls[i].pc = "rejected" /\ calls[i].result = ThrownBy(i)

AttemptLimit == IF policy = "retry" THEN MaxRetries ELSE 1

IsAggregate(res) == ~res.success /\ StartsWith(res.error, Advice)

(* the message the server gave, or 'API error (<status>)' when it gave none *)
ServerMessage(r) ==
    IF r.msg # <<>> THEN r.msg ELSE ApiErrorPrefix \o Digits(r.status) \o <<")">>

JsonOk(r) == ResOk(r) /\ ParseJSON(r.text).ok

(* C1: tasks given to _enqueue run one at a time and in submission order: a  *)
(* task's function is called only when every task submitted before it has    *)
(* run and finished.                                                         *)
C1_Fifo ==
    \A i, j \in Ids : (i < j /\ HasRun(j)) => (HasRun(i) /\ Finished(i))

C1_Witness ==
    /\ Len(calls) >= 2
    /\ calls[1].pc = "fulfilled"
    /\ calls[2].pc = "running"

(* C2: a task that throws does not stop later tasks: every finished task has *)
(* run and reports its own outcome, never the error of an earlier task.      *)
C2_OwnOutcome ==
    \A j \in Ids : Finished(j) =>
        (HasRun(j) /\ calls[j].result \in {ReturnedBy(j), ThrownBy(j)})

(* C3: whenever a task function is called, at least _minRequestGap ms have   *)
(* passed since the previous task function was called (start to start).      *)
C3_MinGap ==
    [][\A i \in Ids : (~HasRun(i) /\ HasRun(i)') =>
          (lastStart < 0 \/ now' - lastStart >= MinRequestGap)]_vars

C3_Witness ==
    /\ policy = "skip"
    /\ Len(calls) >= 2
    /\ calls[1].pc = "fulfilled"
    /\ HasRun(2)
    /\ lastStart = Epoch + MinRequestGap

(* C4: an invocation makes no HTTP attempt before every invocation queued    *)
(* before it has finished all of its attempts, backoff waits included.       *)
C4_NoOvertaking ==
    \A i, j \in Ids :
        (i < j /\ calls[i].pc # "returned" /\ NHttp(calls[j]) > 0)
            => calls[i].pc = "fulfilled"

C4_Witness ==
    /\ Len(calls) >= 2
    /\ calls[1].pc = "fulfilled"
    /\ calls[1].tries[1] >= 2
    /\ calls[2].pc = "http"

C6_InOrderUntilSuccess ==
    [][\A i \in Ids : NHttp(calls'[i]) > NHttp(calls[i]) =>
          (calls'[i].mi >= calls[i].mi /\ ~JsonOk(calls'[i].lastResp))]_vars

(* C7: after an answer with status 401 or 403 the invocation has returned a  *)
(* failure, whatever the message.                                            *)
C7_AuthFailureIsFinal ==
    \A i \in Ids :
        (~calls[i].lastResp.net /\ calls[i].lastResp.status \in {401, 403})
            => (calls[i].pc = "fulfilled" /\ ~calls[i].result.success)

(* C8: after a non-2xx answer that is no throttle signal the invocation has  *)
(* returned the failure whose error is the server's message, or              *)
(* 'API error (<status>)' when there is none.                                *)
C8_ProviderError ==
    \A i \in Ids :
        LET r == calls[i].lastResp
        IN  (~r.net /\ r.status # 0 /\ ~ResOk(r) /\ ~ThrottleSignal(r))
                => (calls[i].pc = "fulfilled"
                    /\ calls[i].result = Failure(ServerMessage(r)))

C8_Witness ==
    \E i \in Ids : calls[i].lastResp = HttpError(500, <<>>) /\ calls[i].pc = "fulfilled"

(* C9: the aggregated failure is returned only when every candidate model    *)
(* has had all its attempts, and a failure that follows a throttle is given  *)
(* to the caller only then.                                                  *)
C9_AggregateOnlyWhenExhausted ==
    \A i \in Ids :
        LET c == calls[i]
        IN  /\ IsAggregate(c.result)
                => \A k \in 1..Len(c.models) : c.tries[k] = AttemptLimit
            /\ (c.pc = "fulfilled" /\ ~c.result.success /\ ThrottleSignal(c.lastResp))
                => \A k \in 1..Len(c.models) : c.tries[k] = AttemptLimit

C9_Witness ==
    /\ policy = "retry"
    /\ \E i \in Ids : IsAggregate(calls[i].result)

(* C10: when every attempt was answered by a throttle signal, the result is  *)
(* the one aggregated failure: the remediation advice followed by the error  *)
(* message of the last attempt, which is the final one on the last model.    *)
C10_LastErrorNamed ==
    \A i \in Ids :
        LET c == calls[i]
        IN  (c.pc = "fulfilled" /\ c.allThrottled /\ NHttp(c) > 0)
                => /\ c.result = Failure(Advice \o ServerMessage(c.lastResp))
                   /\ c.tries[Len(c.models)] = AttemptLimit

C10_Witness ==
    /\ policy = "retry"
    /\ \E i \in Ids :
          /\ calls[i].pc = "fulfilled"
          /\ calls[i].allThrottled
          /\ NHttp(calls[i]) = NumModelsRetry * MaxRetries
          /\ calls[i].lastResp = HttpError(429, MsgDenied)

(* C11: whenever an invocation goes on to retry the model it just called, or *)
(* skips to the next model, after a throttle signal or a network failure,    *)
(* a 'gemini-rate-limit' event is dispatched whose detail names that model,  *)
(* the attempt that failed and the wait before the retry (0 for a skip).     *)
C11_NotifyEveryRetryOrSkip ==
    [][\A i \in Ids :
          LET c == calls[i]
              d == calls'[i]
          IN  (c.pc = "http" /\ (d.pc = "backoff" \/ (d.pc = "http" /\ d.mi > c.mi)))
                  => lastEvent' = [waitSeconds |-> IF d.pc = "backoff"
                                                   THEN Ceil(BackoffWait(c.attempt), 1000)
                                                   ELSE 0,
                                   model |-> c.models[c.mi],
                                   attempt |-> c.attempt]]_vars

(* C12: the HTTP call an invocation makes after an answer with HTTP success  *)
(* and unparsable text goes to a later model of the list, never to the model *)
(* that gave that answer.                                                    *)
C12_ParseFailureNotRetried ==
    [][\A i \in Ids :
          (NHttp(calls'[i]) > NHttp(calls[i])
           /\ ResOk(calls'[i].lastResp) /\ ~JsonOk(calls'[i].lastResp))
              => calls'[i].mi > calls[i].mi]_vars

(* C13: an invocation whose last answer had HTTP success and unparsable text *)
(* does not return the aggregated failure it returns when every model is     *)
(* throttled or unreachable.                                                 *)
C13_ParseErrorDistinct ==
    \A i \in Ids :
        (calls[i].pc = "fulfilled"
         /\ ResOk(calls[i].lastResp) /\ ~JsonOk(calls[i].lastResp))
            => ~IsAggregate(calls[i].result)

(* C14: with an empty credential an invocation returns the failure 'API key  *)
(* not configured.' at once: it is not chained on the queue, makes no HTTP   *)
(* call, leaves _lastRequestTime alone, and nothing happens to it afterwards.*)
C14_NoCredentialNoCall ==
    [][/\ (apiKey = "" /\ Len(calls') > Len(calls)) =>
              LET c == calls'[Len(calls')]
              IN  /\ c.pc = "returned"
                  /\ c.result = Failure(KeyNotConfigured)
                  /\ NHttp(c) = 0
                  /\ chain' = chain
                  /\ lastRequestTime' = lastRequestTime
                  /\ lastFetchAt' = lastFetchAt
       /\ \A i \in Ids : calls[i].pc = "returned" => calls'[i] = calls[i]]_vars

C14_Witness ==
    /\ apiKey = ""
    /\ Len(calls) = 2
    /\ calls[2].pc = "returned"
    /\ calls[2].result = Failure(KeyNotConfigured)
    /\ chain = <<>>
    /\ lastRequestTime = 0
    /\ now > Epoch

(* C15: an invocation's promise is never rejected, and once it has returned  *)
(* its result is either a success carrying data or a failure carrying a      *)
(* non-empty message; before that it has no result.                          *)
C15_AlwaysAResult ==
    \A i \in Ids :
        LET c == calls[i]
        IN  /\ c.pc # "rejected"
            /\ c.pc \in {"returned", "fulfilled"} =>
                   \/ c.result.success /\ c.result.data # NoData /\ c.result.error = <<>>
                   \/ ~c.result.success /\ c.result.data = NoData /\ c.result.error # <<>>
            /\ c.pc \notin {"returned", "fulfilled"} => c.result = NoResult

C15_Witness ==
    /\ Len(calls) = 2
    /\ calls[1].pc = "fulfilled"
    /\ calls[2].pc = "fulfilled"
    /\ calls[1].lastResp = NetworkFailure(<<>>)
    /\ calls[2].lastResp = HttpOk(TextGarbage)

(* the stored session the page is about, before and after a step *)
Stored == sessions[FindIndex(sessions, SESSION_ID)]
StoredNext == sessions'[FindIndex(sessions', SESSION_ID)]

OnSessionPage == page = "session" /\ HasSession(SESSION_ID) /\ SESSION_ID' = SESSION_ID

(* the one suspended handler is a student response that no other handler    *)
(* has overlapped: the turns so far were processed one after another         *)
SequentialTurn ==
    /\ OnSessionPage
    /\ Len(pending) = 1
    /\ pending[1].kind = "response"
    /\ ~pending[1].overlapped

(* the step stores the assistant turn of a successful model call *)
TurnStored ==
    /\ Len(StoredNext.conversation_history) = Len(Stored.conversation_history) + 2
    /\ StoredNext.conversation_history[Len(StoredNext.conversation_history)].role = "assistant"

ReportedTurn == StoredNext.conversation_history[Len(StoredNext.conversation_history)].content

(* C16: the stored highest_difficulty of a session never moves down the      *)
(* order foundational < intermediate < advanced < mastery, whatever the      *)
(* order in which overlapping student responses are answered.                *)
C16_HighestNeverDecreases ==
    [][\A k \in 1..Len(sessions) :
          LET j == FindIndex(sessions', sessions[k].id)
          IN  j # 0 => IndexOfLevel(sessions'[j].highest_difficulty)
                           >= IndexOfLevel(sessions[k].highest_difficulty)]_vars

(* C17: when a turn processed after the ones before it is stored,            *)
(* highest_difficulty becomes the reported level if that level is in the     *)
(* order and above the stored one, and otherwise keeps its value (a lower,   *)
(* equal, absent or unknown level changes nothing); no other step of a       *)
(* sequential turn changes it.                                               *)
C17_RatchetFold ==
    [][SequentialTurn =>
          StoredNext.highest_difficulty =
              IF TurnStored
                 /\ IndexOfLevel(ReportedTurn.difficulty_level)
                        > IndexOfLevel(Stored.highest_difficulty)
              THEN ReportedTurn.difficulty_level
              ELSE Stored.highest_difficulty]_vars

C17_Witness ==
    /\ page = "session"
    /\ HasSession(SESSION_ID)
    /\ Stored.conversation_history =
           <<AssistantTurn(TurnObject(Num(20), "foundational")),
             UserTurn(1), AssistantTurn(TurnObject(Num(65), "intermediate")),
             UserTurn(2), AssistantTurn(TurnObject(Num(20), "foundational")),
             UserTurn(3), AssistantTurn(TurnObject(Num(150), "advanced"))>>
    /\ Stored.highest_difficulty = "advanced"

(* C18: when a turn processed after the ones before it is stored for an      *)
(* active session, final_understanding_score becomes the larger of its       *)
(* stored value and the reported score (its stored value when the turn       *)
(* reports no score).                                                        *)
C18_RunningMaximum ==
    [][(SequentialTurn /\ Stored.is_active /\ TurnStored) =>
          StoredNext.final_understanding_score =
              IF ReportedTurn.understanding_score.defined
                 /\ ReportedTurn.understanding_score.num > Stored.final_understanding_score
              THEN ReportedTurn.understanding_score.num
              ELSE Stored.final_understanding_score]_vars

C18_Witness ==
    /\ page = "session"
    /\ HasSession(SESSION_ID)
    /\ Stored.is_active
    /\ Stored.conversation_history =
           <<AssistantTurn(TurnObject(Num(20), "foundational")),
             UserTurn(1), AssistantTurn(TurnObject(Num(65), "intermediate")),
             UserTurn(2), AssistantTurn(TurnObject(Num(20), "foundational"))>>
    /\ Stored.final_understanding_score = 65

(* C19: the stored final_understanding_score of every session is between 0   *)
(* and 100.                                                                  *)
C19_ScoreInRange ==
    \A k \in 1..Len(sessions) : sessions[k].final_understanding_score \in 0..100

(* C20: when the end of a session leaves the session page for the review,    *)
(* the session is no longer active, and when the step stored a summary, it   *)
(* is an object and final_understanding_score is its overall_understanding   *)
(* whenever that field is present, 0 included.                               *)
C20_SummaryOverwrites ==
    [][(OnSessionPage /\ page' = "review") =>
          /\ ~StoredNext.is_active
          /\ StoredNext.summary # Stored.summary =>
                 /\ ~StoredNext.summary.isNull
                 /\ StoredNext.summary.overall_understanding.defined =>
                        StoredNext.final_understanding_score
                            = StoredNext.summary.overall_understanding.num]_vars

(* the opening answer and the answer of the turn after it, as the scenario   *)
(* of the session page gives them                                            *)
OpeningTurn == AssistantTurn(TurnObject(Num(20), "foundational"))
SecondTurn == AssistantTurn(TurnObject(Num(65), "intermediate"))

OpeningOnly(s) == s.is_active /\ s.conversation_history = <<OpeningTurn>>

OpeningThenTurn(s) ==
    /\ s.is_active
    /\ \E n \in 1..MaxTurns :
           s.conversation_history = <<OpeningTurn, UserTurn(n), SecondTurn>>

ResponseSucceeds ==
    /\ OnSessionPage
    /\ page' = "session"
    /\ exchangeCount' = exchangeCount + 1

(* C22: the stored total_exchanges of a session never decreases, grows by    *)
(* exactly one in the step in which the model call of a student response     *)
(* returns with success, and is changed by no other step, the return of a    *)
(* failed model call included.                                               *)
C22_CountsSuccessfulTurns ==
    [][/\ \A k \in 1..Len(sessions) :
              LET j == FindIndex(sessions', sessions[k].id)
              IN  j # 0 => sessions'[j].total_exchanges >= sessions[k].total_exchanges
       /\ OnSessionPage =>
              StoredNext.total_exchanges =
                  IF ResponseSucceeds THEN Stored.total_exchanges + 1
                  ELSE Stored.total_exchanges]_vars

(* C23: whenever the model call of a student response is in flight, the      *)
(* stored conversation_history already holds the user turn of that response. *)
C23_UserTurnStoredBeforeCall ==
    (page = "session" /\ HasSession(SESSION_ID)) =>
        \A k \in 1..Len(pending) :
            pending[k].kind = "response" =>
                ArrayIncludes(Stored.conversation_history,
                              pending[k].convHistory[Len(pending[k].convHistory)])

(* the step is the return of a failed model call of a student response: the  *)
(* handler leaves, nothing is counted and the store is written               *)
ResponseFails ==
    /\ OnSessionPage
    /\ page' = "session"
    /\ exchangeCount' = exchangeCount
    /\ sessions' # sessions
    /\ \E k \in 1..Len(pending) :
           pending[k].kind = "response" /\ pending' = RemoveAt(pending, k)

(* C24: when the model call of a student response returns a failure, the     *)
(* stored conversation_history becomes what it was plus one user turn, and   *)
(* every other field of the session (total_exchanges, score, highest         *)
(* difficulty, hints_used, summary, is_active among them) keeps its value.   *)
C24_FailureAppendsUserTurnOnly ==
    [][ResponseFails =>
          /\ \E n \in 1..MaxTurns :
                 StoredNext.conversation_history =
                     Append(Stored.conversation_history, UserTurn(n))
          /\ \A f \in (DOMAIN Stored) \ {"conversation_history"} :
                 StoredNext[f] = Stored[f]]_vars

(* s is a prefix of t *)
IsPrefix(s, t) == Len(s) <= Len(t) /\ SubSeq(t, 1, Len(s)) = s

(* C25: every write to a session leaves its previously stored                *)
(* conversation_history as a prefix of the new one, also when two student    *)
(* responses overlap and their model calls return one after the other.       *)
C25_HistoryAppendOnly ==
    [][\A k \in 1..Len(sessions) :
          LET j == FindIndex(sessions', sessions[k].id)
          IN  j # 0 => IsPrefix(sessions[k].conversation_history,
                                sessions'[j].conversation_history)]_vars

NoDuplicates(list) ==
    \A i, j \in 1..Len(list) : i # j => list[i] # list[j]

(* all becomes next by folding list: what was there stays where it was,      *)
(* every item of the list is there, nothing else is, and nothing is twice    *)
FoldedInto(all, list, next) ==
    /\ IsPrefix(all, next)
    /\ NoDuplicates(next)
    /\ \A k \in 1..Len(list.items) : ArrayIncludes(next, list.items[k])
    /\ \A k \in 1..Len(next) :
           ArrayIncludes(all, next[k]) \/ ArrayIncludes(list.items, next[k])

C27_GapsReplaced ==
    [][LET gaps == lastCall'.arg.understanding_signals.gaps
       IN  allGaps' = IF gaps.defined THEN gaps.items ELSE allGaps]_vars

(* an empty gaps list has cleared gaps that were held *)
C27_Witness ==
    /\ lastCall.fn = "updateUI"
    /\ lastCall.before[3] = <<"h", "g">>
    /\ lastCall.arg.understanding_signals.gaps = List(<<>>)
    /\ allGaps = <<>>

(* the step is a call of Storage.updateSession on its own *)
UpdateSessionCalled == lastCall'.fn = "updateSession" /\ lastCall'.n = lastCall.n + 1

(* C28: Storage.updateSession(id, updates) gives the fields named in updates *)
(* their new values and leaves every other field of that session, every      *)
(* other session and the stats as they were; for an id that is not in the    *)
(* store it returns null and changes nothing.                                *)
C28_UpdateSessionFrame ==
    [][UpdateSessionCalled =>
          LET id == lastCall'.arg.id
              updates == lastCall'.arg.updates
              idx == FindIndex(sessions, id)
          IN  /\ stats' = stats
              /\ Len(sessions') = Len(sessions)
              /\ \A k \in 1..Len(sessions) : k # idx => sessions'[k] = sessions[k]
              /\ idx = 0 => lastCall'.result = "null"
              /\ idx # 0 =>
                     /\ \A f \in DOMAIN sessions[idx] :
                            sessions'[idx][f] = IF f \in DOMAIN updates THEN updates[f]
                                                ELSE sessions[idx][f]
                     /\ lastCall'.result = sessions'[idx]]_vars

(* the older of two sessions, already ended with a summary, was updated *)
C28_Witness ==
    /\ lastCall.fn = "updateSession"
    /\ lastCall.arg = [id |-> 1, updates |-> [hints_used |-> 1]]
    /\ Len(sessions) = 2
    /\ sessions[2].id = 1
    /\ sessions[2].hints_used = 1
    /\ sessions[2].final_understanding_score = 80
    /\ ~sessions[2].is_active
    /\ sessions[1] = NewSession(2, "Sorting")

(* the step ends a session: handleEndSession wrote the store and left for    *)
(* the review                                                                *)
SessionEnds == OnSessionPage /\ page' = "review"

Completed(ss) == SelectSeq(ss, LAMBDA s : ~s.is_active)

(* C29 as stated: the stats change only in the step that ends a session;     *)
(* in that step average_understanding becomes the mean of                    *)
(* final_understanding_score over the sessions that are not active after it, *)
(* and topics_explored gains the topic of the session unless it holds it.    *)
C29_ExactMean ==
    [][/\ stats' # stats => SessionEnds
       /\ SessionEnds =>
              /\ stats'.average_understanding * Len(Completed(sessions'))
                     = 10 * SumScores(Completed(sessions'))
              /\ stats'.topics_explored =
                     IF ArrayIncludes(stats.topics_explored, StoredNext.topic)
                     THEN stats.topics_explored
                     ELSE Append(stats.topics_explored, StoredNext.topic)]_vars

(* x is the number of tenths nearest to sum / n, the upper one at a tie *)
NearestTenths(x, sum, n) ==
    /\ 2 * (x * n - 10 * sum) <= n
    /\ 2 * (10 * sum - x * n) < n

(* C29, amended: the stats change only in the step that ends a session; in   *)
(* that step average_understanding becomes the mean of                       *)
(* final_understanding_score over the sessions that are not active after     *)
(* it, the session just ended among them, rounded to one decimal, and        *)
(* topics_explored gains the topic of the session unless it holds it.        *)
C29_RoundedMean ==
    [][/\ stats' # stats => SessionEnds
       /\ SessionEnds =>
              /\ ~StoredNext.is_active
              /\ NearestTenths(stats'.average_understanding,
                               SumScores(Completed(sessions')), Len(Completed(sessions')))
              /\ stats'.topics_explored =
                     IF ArrayIncludes(stats.topics_explored, StoredNext.topic)
                     THEN stats.topics_explored
                     ELSE Append(stats.topics_explored, StoredNext.topic)]_vars

(* three sessions are over with scores 80, 0 and 0: the mean 26.66... is     *)
(* stored as 26.7, and the topic met twice is listed once                    *)
C29_Witness ==
    /\ page = "review"
    /\ Len(Completed(sessions)) = 3
    /\ SumScores(sessions) = 80
    /\ stats.average_understanding = 267
    /\ stats.total_sessions = 2
    /\ stats.topics_explored = <<"Recursion">>

Parsed(body) == [ok |-> TRUE, value |-> JSONParse(body).value]

(* what C30 and its amended form share: plain JSON text is parsed, with      *)
(* white space around it or not, and text that is not JSON fails to parse,   *)
(* plain or wrapped in a fence                                               *)
PlainTextsParsed ==
    /\ \A lead \in Margins, trail \in Margins :
           /\ \A body \in JsonTexts :
                  lastCall.arg = Plain(lead, body, trail) => lastCall.result = Parsed(body)
           /\ \A body \in NonJsonTexts :
                  lastCall.arg = Plain(lead, body, trail) => ~lastCall.result.ok
    /\ \A m \in Margins \X Margins, t \in Tags, b \in BOOLEAN \X BOOLEAN :
           \A body \in NonJsonTexts :
               lastCall.arg = Wrapped(m[1], t, b[1], body, b[2], m[2]) => ~lastCall.result.ok

(* C30 as stated: _parseJSON returns the parsed value for plain JSON text    *)
(* and for JSON text between an opening and a closing fence, with or without *)
(* a language tag and with or without a line break after the opening fence, *)
(* and fails to parse text that is not JSON.                                 *)
C30_AnyFenceParsed ==
    lastCall.fn = "_parseJSON" =>
        /\ PlainTextsParsed
        /\ \A m \in Margins \X Margins, t \in Tags, b \in BOOLEAN \X BOOLEAN :
               \A body \in JsonTexts :
                   lastCall.arg = Wrapped(m[1], t, b[1], body, b[2], m[2])
                       => lastCall.result = Parsed(body)

(* C30, amended: _parseJSON returns the parsed value for plain JSON text and *)
(* for JSON text between an opening and a closing fence when the opening     *)
(* fence, with or without a language tag, is followed by a line break; JSON  *)
(* text that follows the opening fence on the same line fails to parse, and  *)
(* so does text that is not JSON.                                            *)
C30_FenceLineParsed ==
    lastCall.fn = "_parseJSON" =>
        /\ PlainTextsParsed
        /\ \A m \in Margins \X Margins, t \in Tags, b \in BOOLEAN \X BOOLEAN :
               \A body \in JsonTexts :
                   lastCall.arg = Wrapped(m[1], t, b[1], body, b[2], m[2])
                       => IF b[1] THEN lastCall.result = Parsed(body)
                          ELSE ~lastCall.result.ok

(* a fenced object with a language tag and white space around the fences *)
C30_Witness ==
    /\ lastCall.fn = "_parseJSON"
    /\ lastCall.arg = Wrapped(<<" ">>, Tag, TRUE, JsonObject, FALSE, <<"\n">>)
    /\ lastCall.result = [ok |-> TRUE, value |-> "object"]

(* the answer is one the clients take for a reason to try again: a throttle  *)
(* signal or no answer at all                                                *)
Retryable(r) == r.net \/ ThrottleSignal(r)

(* C31: in the retry client, an attempt that ends in a throttle signal or a  *)
(* network failure is followed, when it was the first or the second on its   *)
(* model, by a wait of _baseBackoff * 2^(attempt-1) ms (2000, then 4000) and *)
(* the next attempt on the same model; when it was the third, by the first   *)
(* attempt on the next model at once, or by the end of the invocation with   *)
(* every model tried exactly _maxRetries times.                              *)
C31_RetrySameModel ==
    [][policy = "retry" =>
          \A i \in Ids :
              LET c == calls[i]
                  d == calls'[i]
              IN  /\ (c.pc = "http" /\ d # c /\ Retryable(d.lastResp)) =>
                         IF c.attempt < MaxRetries
                         THEN /\ d.pc = "backoff"
                              /\ d.mi = c.mi /\ d.attempt = c.attempt
                              /\ d.wakeAt = now + (IF c.attempt = 1 THEN BaseBackoff
                                                   ELSE 2 * BaseBackoff)
                         ELSE IF c.mi < Len(c.models)
                         THEN /\ d.pc = "http"
                              /\ d.mi = c.mi + 1 /\ d.attempt = 1
                              /\ c.tries[c.mi] = MaxRetries
                         ELSE /\ d.pc = "fulfilled"
                              /\ \A k \in 1..Len(c.models) : d.tries[k] = MaxRetries
                  /\ (c.pc = "backoff" /\ d # c) =>
                         /\ now >= c.wakeAt
                         /\ d.pc = "http"
                         /\ d.mi = c.mi /\ d.attempt = c.attempt + 1
                         /\ d.tries[c.mi] = c.tries[c.mi] + 1]_vars

(* both models were tried three times, the last attempt got no answer *)
C31_Witness ==
    /\ policy = "retry"
    /\ \E i \in Ids :
           /\ calls[i].pc = "fulfilled"
           /\ calls[i].lastResp.net
           /\ \A k \in 1..Len(calls[i].models) : calls[i].tries[k] = MaxRetries

(* C32: in the skip client, an attempt that ends in a throttle signal or a   *)
(* network failure is followed at once, with no wait, by the one attempt on  *)
(* the next model of the list, or after the last model by the end of the     *)
(* invocation with every model tried exactly once; every notification it     *)
(* dispatches carries waitSeconds 0 and attempt 1.                           *)
C32_SkipToNextModel ==
    [][policy = "skip" =>
          /\ \A i \in Ids :
                 LET c == calls[i]
                     d == calls'[i]
                 IN  (c.pc = "http" /\ d # c /\ Retryable(d.lastResp)) =>
                         IF c.mi < Len(c.models)
                         THEN /\ d.pc = "http"
                              /\ d.mi = c.mi + 1 /\ d.attempt = 1
                              /\ d.fetchedAt = now /\ now' = now
                              /\ d.tries[d.mi] = 1
                         ELSE /\ d.pc = "fulfilled"
                              /\ \A k \in 1..Len(c.models) : d.tries[k] = 1
          /\ lastEvent' # lastEvent =>
                 (lastEvent'.waitSeconds = 0 /\ lastEvent'.attempt = 1)]_vars

(* three models were tried once each, the second was throttled *)
C32_Witness ==
    /\ policy = "skip"
    /\ lastEvent = [waitSeconds |-> 0, model |-> 2, attempt |-> 1]
    /\ \E i \in Ids :
           /\ calls[i].pc = "fulfilled"
           /\ IsAggregate(calls[i].result)
           /\ calls[i].tries = <<1, 1, 1>>

(* the invocation has come back to its caller with a result *)
Completed33(i) ==
    /\ i \in Ids
    /\ calls[i].pc \in {"fulfilled", "returned"}
    /\ calls[i].result # NoResult

(* the invocation has left the queue: its task function was called *)
Started33(i) ==
    /\ i \in Ids
    /\ calls[i].pc \in {"http", "backoff", "fulfilled", "returned"}

(* C33: provided every HTTP call settles and timers fire, every submitted   *)
(* invocation eventually completes with a result, having made at most       *)
(* (number of candidate models x _maxRetries) HTTP attempts in the retry    *)
(* client and at most (number of candidate models) in the skip client; so   *)
(* every queued invocation is eventually started.                           *)
C33_EveryInvocationCompletes ==
    /\ [](\A i \in Ids : NHttp(calls[i]) <= Len(calls[i].models) * AttemptLimit)
    /\ \A i \in 1..MaxCalls :
           /\ (i \in Ids) ~> Completed33(i)
           /\ (i \in Ids) ~> Started33(i)

(* the second invocation completed after the first had used every attempt *)
C33_Witness ==
    /\ Len(calls) = 2
    /\ Completed33(2)
    /\ NHttp(calls[2]) >= 1
    /\ IsAggregate(calls[1].result)
    /\ NHttp(calls[1]) = Len(calls[1].models) * AttemptLimit

(* the assistant turns of a history *)
AssistantTurns(history) == SelectSeq(history, LAMBDA t : t.role = "assistant")

(* C34: in every reachable state, also after overlapping student responses, *)
(* total_exchanges of every stored session is the number of assistant turns *)
(* of its conversation_history that follow the opening question.            *)
C34_ExchangesMatchHistory ==
    \A k \in 1..Len(sessions) :
        sessions[k].total_exchanges
            = Len(AssistantTurns(sessions[k].conversation_history)) - 1

(* the items of a list of strings, as a set *)
ItemsOf(list) == {list[k] : k \in 1..Len(list)}

(* the union of the correct_insights, and of the misconceptions, over the   *)
(* assistant turns of a history                                             *)
AllCorrectOf(history) ==
    UNION {ItemsOf(history[k].content.understanding_signals.correct_insights.items) :
               k \in {j \in 1..Len(history) : history[j].role = "assistant"}}

AllMisconceptionsOf(history) ==
    UNION {ItemsOf(history[k].content.understanding_signals.misconceptions.items) :
               k \in {j \in 1..Len(history) : history[j].role = "assistant"}}

(* session.html is loaded again for the session it shows *)
Reload ==
    /\ page = "session" /\ page' = "session"
    /\ SESSION_ID' = SESSION_ID
    /\ sessions' = sessions
    /\ submitted' = submitted

(* C35: after the session page is reloaded, the accumulated correct_insights *)
(* and misconceptions are the de-duplicated union of those lists over all    *)
(* assistant turns of the stored conversation_history, the same sets the     *)
(* page held before the reload.                                              *)
C35_ReloadRestoresInsights ==
    [][Reload =>
          /\ NoDuplicates(allCorrectInsights') /\ NoDuplicates(allMisconceptions')
          /\ ItemsOf(allCorrectInsights') = AllCorrectOf(Stored.conversation_history)
          /\ ItemsOf(allMisconceptions') = AllMisconceptionsOf(Stored.conversation_history)
          /\ ItemsOf(allCorrectInsights') = ItemsOf(allCorrectInsights)
          /\ ItemsOf(allMisconceptions') = ItemsOf(allMisconceptions)]_vars

(* the positions of the messages made from student response n *)
TurnsOfResponse(messages, n) ==
    {j \in 1..Len(messages) : messages[j].kind = "response" /\ messages[j].response = n}

(* C36: the messages continueDialogue sends for a student response contain  *)
(* that response exactly once, as the final user turn, preceded by the      *)
(* earlier turns of the history in their stored order.                      *)
C36_ResponseSentOnce ==
    \A k \in 1..Len(pending) :
        pending[k].kind = "response" =>
            LET messages == pending[k].messages
                earlier == pending[k].session.conversation_history
                n == pending[k].convHistory[Len(pending[k].convHistory)].response
            IN  /\ messages[Len(messages)] = Message("user", "response", n, NullValue)
                /\ TurnsOfResponse(messages, n) = {Len(messages)}
                /\ \E first \in 1..Len(messages) :
                       SubSeq(messages, first, Len(messages) - 1)
                           = [j \in 1..Len(earlier) |-> MessageOf(earlier[j])]

(* C37: in every state between asynchronous steps, the conversation_history *)
(* of every stored session is non-empty, begins with an assistant turn, and *)
(* has no two assistant turns next to each other; user turns may follow one *)
(* another.                                                                 *)
C37_HistoryShape ==
    \A k \in 1..Len(sessions) :
        LET history == sessions[k].conversation_history
        IN  /\ history # <<>>
            /\ history[1].role = "assistant"
            /\ \A j \in 1..(Len(history) - 1) :
                   history[j].role = "assistant" => history[j + 1].role = "user"

(* a failed call left a user turn without an answer and the next response   *)
(* was answered: two user turns in a row, then an assistant turn            *)
C37_Witness ==
    \E k \in 1..Len(sessions) :
        LET history == sessions[k].conversation_history
        IN  /\ Len(history) = 4
            /\ history[2].role = "user" /\ history[3].role = "user"
            /\ history[4].role = "assistant"

(* C38: a session record is created only after the opening model call has  *)
(* succeeded: when the credential is not configured or the opening call     *)
(* fails, handleStartSession leaves the session list and the stats as they  *)
(* were.                                                                    *)
C38_SessionOnlyAfterOpening ==
    [][/\ Len(sessions') > Len(sessions) =>
              /\ apiKey # ""
              /\ lastCall' = StartCall("Recursion", "started")
              /\ Len(sessions') = Len(sessions) + 1
              /\ Tail(sessions') = sessions
              /\ Len(Head(sessions').conversation_history) = 1
              /\ Head(sessions').conversation_history[1].role = "assistant"
       /\ (lastCall' # lastCall /\ lastCall'.fn = "handleStartSession"
               /\ (apiKey = "" \/ lastCall'.result # "started")) =>
              /\ lastCall'.result = (IF apiKey = "" THEN "no credential" ELSE "failed")
              /\ sessions' = sessions
              /\ stats' = stats
              /\ page' = page]_vars

(* the opening call failed and nothing was stored *)
C38_Witness ==
    /\ apiKey # ""
    /\ lastCall = StartCall("Recursion", "failed")
    /\ sessions = <<>>
    /\ stats = InitialStats
    /\ page = "index"

(* the start form was submitted with no credential configured *)
C38_WitnessNoCredential ==
    /\ apiKey = ""
    /\ lastCall = StartCall("Recursion", "no credential")
    /\ sessions = <<>>

(* C39: when the summary call fails while a session is ended, the session   *)
(* is closed all the same (is_active false, ended_at set) and the stats are *)
(* updated, while summary stays null and final_understanding_score keeps    *)
(* the value it had before. A summary that is null after the end tells the  *)
(* failed call: a summary that came is stored, and it is never null.        *)
C39_FailedSummaryStillEnds ==
    [][SessionEnds =>
          /\ ~StoredNext.is_active
          /\ StoredNext.ended_at = "set"
          /\ stats'.total_sessions = stats.total_sessions + 1
          /\ stats'.total_exchanges = stats.total_exchanges + StoredNext.total_exchanges
          /\ StoredNext.summary.isNull =>
                 /\ Stored.summary.isNull
                 /\ StoredNext.final_understanding_score
                        = Stored.final_understanding_score
                 /\ StoredNext.total_exchanges = Stored.total_exchanges
                 /\ StoredNext.conversation_history = Stored.conversation_history]_vars

(* a session with a score of 65 was ended without a summary *)
C39_Witness ==
    /\ page = "review"
    /\ HasSession(SESSION_ID)
    /\ ~Stored.is_active /\ Stored.ended_at = "set"
    /\ Stored.summary.isNull
    /\ Stored.final_understanding_score = 65
    /\ stats.total_sessions = 1

(* C40: after any sequence of start, respond and end operations,            *)
(* Stats.total_sessions is the number of distinct sessions that have been   *)
(* ended: a session counts once, also when it is ended again. A stored      *)
(* session has been ended when it is no longer active.                      *)
C40_TotalSessionsCountsSessions ==
    stats.total_sessions = Len(Completed(sessions))

====
